---- MODULE Spec2Model ----
(***************************************************************************)
(* The export pipeline of youtrack-export (src/src/youtrack_export):       *)
(* Export.export fans out one _initiate_export coroutine per selected      *)
(* project on a single asyncio event loop.  Each pipeline polls the count  *)
(* endpoint, then pages through the issue listing, appends every issue to  *)
(* a batch file, downloads attachments and finally writes metadata.json.   *)
(*                                                                         *)
(* Scheduling: asyncio is cooperative.  A coroutine runs without           *)
(* interruption between two awaits; the awaits are the count request, the  *)
(* polling delay and the issue-page request.  `running` names the pipeline *)
(* that is inside a synchronous section spanning several model steps (the  *)
(* per-issue loop of _export_project); nothing else steps meanwhile.       *)
(*                                                                         *)
(* The tracker's REST API and the filesystem are the environment: every    *)
(* answer (count, sentinel, null, page, HTTP error) and every I/O outcome  *)
(* is drawn nondeterministically.                                          *)
(***************************************************************************)
EXTENDS Integers, Sequences, FiniteSets, TLC

\* ---------------------------------------------------------------- bounds
\* Issues the listing endpoint serves during one session (all projects, all runs).
MaxIssues == 3
\* Longest page the listing endpoint returns.
MaxPage == 2
\* Attachments carried by one issue, at most.
MaxAtt == 1
\* Times the user starts an export in one session (app.py's menu loop).
MaxRuns == 2
\* A batch size small enough for a rollover to happen within MaxIssues.
SmallBatch == 2

\* ------------------------------------------------------ program constants
\* Export.__polling['max_attempts']
max_attempts == 10
\* Export.__batch_size
default_batch_size == 100

\* The batch sizes the model runs with: the class attribute as shipped, and a
\* small one so that several batch files appear within MaxIssues issues.
BatchSizes == {SmallBatch, default_batch_size}

VARIABLES
  call,          \* a constructor or function call under study: fn, arg, out
  projects,      \* Export.projects: the projects of the current run
  export_items,  \* Export.export_items
  batch_size,    \* Export.__batch_size
  run,           \* number of the current Export(...) construction
  running,       \* pipeline inside a synchronous multi-step section, or None
  signalled,     \* times 'Export Complete!' was printed in this run
  task,          \* per project: the pipeline's locals and its progress task
  disk,          \* per project folder: issues/, attachments/, metadata.json
  issued         \* issues served by the listing endpoint so far

vars == <<call, projects, export_items, batch_size, run, running, signalled, task,
          disk, issued>>

\* ------------------------------------------------------------- the inputs
Min(a, b) == IF a <= b THEN a ELSE b

\* Strings the code takes apart (project strings, project names, attachment
\* names) are sequences of one-character strings.
Whitespace == {" ", "\t", "\n"}
UpperCase ==
  <<"A", "B", "C", "D", "E", "F", "G", "H", "I", "J", "K", "L", "M",
    "N", "O", "P", "Q", "R", "S", "T", "U", "V", "W", "X", "Y", "Z">>
LowerCase ==
  <<"a", "b", "c", "d", "e", "f", "g", "h", "i", "j", "k", "l", "m",
    "n", "o", "p", "q", "r", "s", "t", "u", "v", "w", "x", "y", "z">>
Digits == {"0", "1", "2", "3", "4", "5", "6", "7", "8", "9"}

\* str.lower on one character
lower(c) ==
  IF \E i \in 1..26 : UpperCase[i] = c
  THEN LowerCase[CHOOSE i \in 1..26 : UpperCase[i] = c]
  ELSE c

\* The pipelines of a run, by the place of their project in Export.projects:
\* A is the first project of the list, B the second.
Projects == {"A", "B"}
Selections == {{"A"}, {"A", "B"}}

\* The sessions the model explores: one project exported MaxRuns times in a
\* row, or several projects exported concurrently, once.
RunsOf(selection) == IF Cardinality(selection) = 1 THEN MaxRuns ELSE 1

Position(p) == IF p = "A" THEN 1 ELSE 2

\* The parsed projects of a session that starts with the Export object
\* constructed.
DefaultProject(p) ==
  IF p = "A"
  THEN [id |-> <<"0", "-", "1">>,
        name |-> <<"A", "l", "p", "h", "a", " ", "T", "e", "a", "m">>]
  ELSE [id |-> <<"0", "-", "2">>, name |-> <<"B", "e", "t", "a">>]

\* The dict of Export.projects a pipeline works on: what the constructor
\* parsed, when the session starts at the constructor.
project_of(p) ==
  IF call.fn = "Export" /\ call.state = "returned"
       /\ Position(p) <= Len(call.out)
  THEN call.out[Position(p)]
  ELSE DefaultProject(p)

\* project.get('name') and project.get('id')
ProjectName(p) == project_of(p).name
ProjectId(p) == project_of(p).id

\* python-slugify with its defaults, on ASCII names: lower case, every run
\* of characters other than letters and digits becomes one hyphen, and no
\* hyphen at either end.
RECURSIVE slug_from(_, _, _)
slug_from(name, i, acc) ==
  IF i > Len(name)
  THEN IF acc # <<>> /\ acc[Len(acc)] = "-"
       THEN SubSeq(acc, 1, Len(acc) - 1) ELSE acc
  ELSE LET c == lower(name[i])
       IN IF c \in Digits \/ (\E k \in 1..26 : LowerCase[k] = c)
          THEN slug_from(name, i + 1, Append(acc, c))
          ELSE IF acc = <<>> \/ acc[Len(acc)] = "-"
          THEN slug_from(name, i + 1, acc)
          ELSE slug_from(name, i + 1, Append(acc, "-"))

slugify(name) == slug_from(name, 1, <<>>)

\* The project names of the sessions explored.
KnownNames ==
  { <<"A", "l", "p", "h", "a", " ", "T", "e", "a", "m">>,
    <<"a", "l", "p", "h", "a", " ", "t", "e", "a", "m">>,
    <<"B", "e", "t", "a">> }
\* Their folders, computed once.
project_folders == [n \in KnownNames |-> slugify(n)]

\* Export.__get_project_folder: exports/<slugified project name>
get_project_folder(p) == project_folders[ProjectName(p)]

Folders == {project_folders[n] : n \in KnownNames}

\* ------------------------------------------------------ project strings
\* The literal _parse_projects splits on (lines 334-335).
Delimiter == <<"|", " ", "I", "D", ":">>

\* str.find(sub, i): the lowest index from i on at which sub occurs, 0 if none
RECURSIVE find(_, _, _)
find(s, sub, i) ==
  IF i + Len(sub) - 1 > Len(s) THEN 0
  ELSE IF SubSeq(s, i, i + Len(sub) - 1) = sub THEN i
  ELSE find(s, sub, i + 1)

\* str.split(sep): the pieces between the occurrences of sep, left to right
RECURSIVE split(_, _)
split(s, sep) ==
  LET i == find(s, sep, 1)
  IN IF i = 0
     THEN <<s>>
     ELSE <<SubSeq(s, 1, i - 1)>> \o split(SubSeq(s, i + Len(sep), Len(s)), sep)

\* str.strip(): without the whitespace at both ends
RECURSIVE lstrip(_)
lstrip(s) ==
  IF s # <<>> /\ Head(s) \in Whitespace THEN lstrip(Tail(s)) ELSE s

RECURSIVE rstrip(_)
rstrip(s) ==
  IF s # <<>> /\ s[Len(s)] \in Whitespace
  THEN rstrip(SubSeq(s, 1, Len(s) - 1)) ELSE s

strip(s) == rstrip(lstrip(s))

\* _parse_projects, lines 333-336, for one string: [1] of a split without a
\* second piece raises IndexError (ok = FALSE).
parse_project(project) ==
  LET parts == split(project, Delimiter)
  IN IF Len(parts) < 2
     THEN [ok |-> FALSE, id |-> <<>>, name |-> <<>>]
     ELSE [ok |-> TRUE, id |-> strip(parts[2]), name |-> strip(parts[1])]

\* Mutant of _parse_projects: a string that does not parse is left out.
RECURSIVE parse_projects_skipping(_)
parse_projects_skipping(list) ==
  IF list = <<>> THEN [ok |-> TRUE, value |-> <<>>]
  ELSE LET r == parse_project(Head(list))
           rest == parse_projects_skipping(Tail(list))
       IN [ok |-> TRUE,
           value |-> IF r.ok
                     THEN <<[id |-> r.id, name |-> r.name]>> \o rest.value
                     ELSE rest.value]

\* _parse_projects, lines 321-339: the first string that raises ends the call.
_parse_projects(list) ==
  IF \E i \in 1..Len(list) : ~parse_project(list[i]).ok
  THEN [ok |-> FALSE, value |-> <<>>]
  ELSE [ok |-> TRUE,
        value |-> [i \in 1..Len(list) |->
                     [id |-> parse_project(list[i]).id,
                      name |-> parse_project(list[i]).name]]]

\* app.py, line 113: f"{name} | ID:{id}"
project_string(name, id) == name \o <<" ">> \o Delimiter \o id

\* Strings without the delimiter, and strings with nothing or blanks
\* after it.
NoDelimiter == <<"D", "e", "l", "t", "a">>
NoColon == <<"D", "e", "l", "t", "a", " ", "|", " ", "I", "D", "0", "-", "4">>
EmptyId == project_string(DefaultProject("B").name, <<>>)
BlankId == project_string(DefaultProject("B").name, <<" ", " ", " ">>)

\* The strings of the two default projects, and of a third project whose
\* name differs from the first one's in case only.
Selected(p) == project_string(DefaultProject(p).name, DefaultProject(p).id)
SameSlug ==
  project_string(<<"a", "l", "p", "h", "a", " ", "t", "e", "a", "m">>,
                 <<"0", "-", "3">>)

\* The lists handed to Export(client, projects, export_items) in the
\* sessions that start at the constructor.
SelectedLists ==
  { <<Selected("A")>>,
    <<Selected("A"), Selected("B")>>,
    <<Selected("A"), SameSlug>>,
    <<EmptyId>>,
    <<BlankId>>,
    <<NoDelimiter>>,
    <<NoColon>>,
    <<Selected("A"), NoDelimiter>>,
    <<NoDelimiter, Selected("A")>>,
    <<Selected("A"), NoColon, Selected("B")>> }

\* -------------------------------------------------- requests and file names
\* The choices of app.py's checkbox (lines 131-136).
AllItems == {"Unresolved Issues", "Resolved Issues", "Comments", "Attachments"}

Unresolved == <<"#", "U", "n", "r", "e", "s", "o", "l", "v", "e", "d">>
Resolved == <<"#", "R", "e", "s", "o", "l", "v", "e", "d">>
ProjectPrefix == <<"p", "r", "o", "j", "e", "c", "t", ":", " ">>

\* str.join(list): the strings of list with sep between them
RECURSIVE join(_, _)
join(list, sep) ==
  IF list = <<>> THEN <<>>
  ELSE IF Len(list) = 1 THEN Head(list)
  ELSE Head(list) \o sep \o join(Tail(list), sep)

\* Mutant of _parse_query: the two tokens change places.
parse_query_swapped(items) ==
  join((IF "Unresolved Issues" \in items THEN <<Resolved>> ELSE <<>>)
         \o (IF "Resolved Issues" \in items THEN <<Unresolved>> ELSE <<>>),
       <<" ">>)

\* YouTrackClient._parse_query, client.py lines 157-172
_parse_query(items) ==
  join((IF "Unresolved Issues" \in items THEN <<Unresolved>> ELSE <<>>)
         \o (IF "Resolved Issues" \in items THEN <<Resolved>> ELSE <<>>),
       <<" ">>)

\* The query of both endpoints, client.py lines 94 and 114:
\* f"project: {name} {filter}"
query_of(p, items) ==
  ProjectPrefix \o ProjectName(p) \o <<" ">> \o _parse_query(items)

\* The field groups of _parse_fields_from_export_items, client.py lines
\* 183-189 (always sent), 192 and 194; a group is one string of the list.
BaselineFields ==
  << "id,idReadable,isDraft,summary,description,created,updated,resolved",
     "tags(id,name,color),reporter(email,fullName)",
     "parent(id,direction,linkType(name),issues(id,idReadable,resolved)),subtasks(id,direction,linkType(name),issues(id,idReadable,resolved))",
     "links(id,direction,linkType(name),issues(id,idReadable,resolved))",
     "customFields(id,name,value(id,name,presentation,text))" >>
CommentsFields == "comments(id,author(login,name),text,created,updated)"
AttachmentsFields == "attachments(id,name,url,created,author(login,name))"

\* Mutant of _parse_fields_from_export_items: the attachments group goes
\* with the Comments item.
parse_fields_attachments_with_comments(items) ==
  join([i \in 1..Len(BaselineFields) |-> <<BaselineFields[i]>>]
         \o (IF "Comments" \in items
             THEN <<(<<CommentsFields>>), (<<AttachmentsFields>>)>> ELSE <<>>),
       <<",">>)

\* YouTrackClient._parse_fields_from_export_items, client.py lines 175-196:
\* the groups and the commas between them, in order.
_parse_fields_from_export_items(items) ==
  join([i \in 1..Len(BaselineFields) |-> <<BaselineFields[i]>>]
         \o (IF "Comments" \in items THEN <<(<<CommentsFields>>)>> ELSE <<>>)
         \o (IF "Attachments" \in items
             THEN <<(<<AttachmentsFields>>)>> ELSE <<>>),
       <<",">>)

\* The requests of get_project_issue_count (client.py lines 93-99) and
\* get_issues (lines 113-121).
count_request(p, items) == [query |-> query_of(p, items)]
issues_request(p, items, skip) ==
  [ query |-> query_of(p, items),
    fields |-> _parse_fields_from_export_items(items),
    skip |-> skip,
    top |-> 100 ]

\* str.rfind(c): the highest index at which c occurs, 0 if none
RECURSIVE rfind(_, _, _)
rfind(s, c, i) ==
  IF i = 0 THEN 0 ELSE IF s[i] = c THEN i ELSE rfind(s, c, i - 1)

\* os.path.splitext: the extension starts at the last dot of the last path
\* component, unless only dots precede it there.
splitext(name) ==
  LET sep == rfind(name, "/", Len(name))
      dot == rfind(name, ".", Len(name))
  IN IF dot > sep /\ \E k \in (sep + 1)..(dot - 1) : name[k] # "."
     THEN [filename |-> SubSeq(name, 1, dot - 1),
           extension |-> SubSeq(name, dot, Len(name))]
     ELSE [filename |-> name, extension |-> <<>>]

\* filename[:100] in _save_project_attachments, line 267
filename_limit == 100

\* _save_project_attachments, lines 266-267:
\* f"{id}_{filename[:100]}.{extension}"
attachment_file_name(id, name) ==
  LET parts == splitext(name)
  IN id \o <<"_">>
       \o SubSeq(parts.filename, 1, Min(Len(parts.filename), filename_limit))
       \o <<".">> \o parts.extension

\* ------------------------------------------------ calls studied on their own
\* Names and ids that are encoded with project_string and parsed again.
RoundTripNames ==
  { <<"A", "l", "p", "h", "a", " ", "T", "e", "a", "m">>,
    <<" ", "B", "e", "t", "a", " ">>,
    <<"a", "|", "b">>,
    <<"x", " ", "|", " ", "I", "D">>,
    <<>> }
RoundTripIds ==
  { <<"0", "-", "1">>,
    <<" ", "7", " ">>,
    <<" ", " ">>,
    <<"1", "|", " ", "I", "D", ":", "2">>,
    <<"|", " ", "I", "D", ":">> }

\* Attachment names, as base name and extension, and attachment ids.
repeat(c, n) == [i \in 1..n |-> c]
AttachmentNames ==
  { [base |-> <<"r", "e", "p", "o", "r", "t">>, ext |-> <<".", "p", "d", "f">>],
    [base |-> <<"n", "o", "t", "e", "s">>, ext |-> <<>>],
    [base |-> <<"a", ".", "t", "a", "r">>, ext |-> <<".", "g", "z">>],
    [base |-> <<".", "b", "a", "s", "h", "r", "c">>, ext |-> <<>>],
    [base |-> repeat("a", filename_limit - 1), ext |-> <<".", "t", "x", "t">>],
    [base |-> repeat("a", filename_limit), ext |-> <<".", "t", "x", "t">>],
    [base |-> repeat("a", filename_limit + 1), ext |-> <<".", "t", "x", "t">>],
    [base |-> repeat("a", filename_limit + 1), ext |-> <<>>] }
AttachmentIds == { <<"1", "-", "5">>, <<"8", "-", "1", "2">> }

FnCalls ==
  { [fn |-> "_parse_projects", arg |-> [name |-> n, id |-> i],
     state |-> "called", out |-> <<>>] :
      n \in RoundTripNames, i \in RoundTripIds }
  \cup { [fn |-> "_parse_query", arg |-> S, state |-> "called", out |-> <<>>] :
           S \in SUBSET AllItems }
  \cup { [fn |-> "_parse_fields_from_export_items", arg |-> S,
          state |-> "called", out |-> <<>>] :
           S \in SUBSET AllItems }
  \cup { [fn |-> "attachment_file_name",
          arg |-> [id |-> i, base |-> a.base, ext |-> a.ext],
          state |-> "called", out |-> <<>>] :
           i \in AttachmentIds, a \in AttachmentNames }

\* The export-item selections the model runs with (app.py's checkbox).
ItemSets ==
  { {"Unresolved Issues", "Resolved Issues"},
    {"Unresolved Issues", "Resolved Issues", "Comments", "Attachments"} }

\* What one call of the count endpoint can come back with: an HTTP or network
\* failure, a body without count (None), the sentinel -1, or a count.
RealCounts == {0, 2}
CountAnswers ==
  { [kind |-> "error", v |-> 0], [kind |-> "null", v |-> 0] }
    \cup { [kind |-> "count", v |-> c] : c \in {-1} \cup RealCounts }

\* Outcome of a file write: done, failed before the file was touched, or failed
\* after the file was truncated or created.
WriteOutcomes == {"ok", "fail_open", "fail_write"}

None == "none"
NoAnswer == [kind |-> "none", v |-> 0]

\* No call under study: the Export object is constructed, its pipelines run.
\* A call is "called", then "returned" with out or "raised".
NoCall == [fn |-> None, arg |-> <<>>, state |-> None, out |-> <<>>]

\* ---------------------------------------------------------- initial state
\* A pipeline before _initiate_export has run: progress.add_task(
\* 'Starting export...', start=False, total=0), and the observation counters.
NewTask ==
  [ pc |-> "pending",
    description |-> "Starting export...",
    error |-> None,
    visible |-> TRUE,
    polled |-> FALSE,
    issues_total |-> 0,
    attempt |-> 0,
    parsed_issues |-> 0,
    counts |-> [resolved |-> 0, unresolved |-> 0, attachments |-> 0],
    batch |-> 1,
    page |-> <<>>,
    att_left |-> 0,
    att_count |-> 0,
    last_skip |-> 0,
    \* observation of the running _get_project_issues_count_with_polling
    \* call: requests sent, sentinel answers, delays taken
    count_calls |-> 0,
    sentinels |-> 0,
    sleeps |-> 0,
    \* observation of the run: the last count answer, whether the listing was
    \* requested, the last page, metadata writes, the step that failed
    answer |-> NoAnswer,
    reset_done |-> FALSE,
    last_page |-> None,
    meta_writes |-> 0,
    failure |-> None ]

\* metadata.json: absent, a complete JSON document ("valid"), or the remains
\* of a write that failed ("partial").  resolution_rate is held in units of
\* 1/10000, export_date as the number of the run that wrote the file.
NoMetadata ==
  [ state |-> "absent", export_date |-> 0, total_issues |-> 0,
    resolved_count |-> 0, unresolved_count |-> 0, resolution_rate |-> 0,
    total_attachments |-> 0 ]

\* A project folder: exists, issues/ with its batch files (batch number ->
\* file), the attachment files and metadata.json.
EmptyFolder ==
  [ exists |-> FALSE,
    issues_dir |-> FALSE,
    issues |-> <<>>,
    attachments |-> {},
    metadata |-> NoMetadata ]

Init ==
  /\ call = NoCall
  /\ projects \in Selections
  /\ export_items \in ItemSets
  /\ batch_size \in BatchSizes
  /\ run = 1
  /\ running = None
  /\ signalled = 0
  /\ task = [p \in Projects |-> NewTask]
  /\ disk = [f \in Folders |-> EmptyFolder]
  /\ issued = 0

\* ------------------------------------------------------- pure helpers

\* An issue as the listing endpoint returns it.  n is its position in the
\* server's result list (1-based), attachments the number of descriptors.
Issue(p, n, res, atts) ==
  [ id |-> [run |-> run, project |-> p, n |-> n],
    resolved |-> res,
    attachments |-> atts ]

\* client.get_issues: the page the server answers a request with $skip = skip:
\* any number of issues up to MaxPage, taken from position skip + 1 on.  The
\* attachments field is requested only when Attachments is selected
\* (_parse_fields_from_export_items); an issue then has none or MaxAtt.
AttCounts == IF "Attachments" \in export_items THEN {0, MaxAtt} ELSE {0}

Pages(p, skip) ==
  UNION { { [j \in 1..len |-> Issue(p, skip + j, rs[j], ats[j])] :
              rs \in [1..len -> BOOLEAN], ats \in [1..len -> AttCounts] } :
          len \in 0..Min(MaxPage, MaxIssues - issued) }

\* Mutant of Fail: the error is reported and the pipeline carries on.
Fail_carries_on(tk, kind, msg) ==
  [tk EXCEPT !.description = "Error exporting", !.error = msg,
             !.failure = kind]

\* _initiate_export, lines 108-111: the except clause and the finally.
Fail(tk, kind, msg) ==
  [tk EXCEPT !.pc = "done", !.description = "Error exporting",
             !.error = msg, !.failure = kind]

\* _initiate_export, line 106
export_finished(export_count, issues_total) == export_count >= issues_total

\* _initiate_export, lines 105-111 on the path without exception
Finish(tk, export_count) ==
  [tk EXCEPT !.pc = "done",
             !.description =
               IF export_finished(export_count, tk.issues_total)
               THEN "Complete!" ELSE @]

\* _get_project_issues_count_with_polling returns or raises: its frame (the
\* loop variable, and what was observed of the call) is gone.
leave_poll(tk) ==
  [tk EXCEPT !.attempt = 0, !.count_calls = 0, !.sentinels = 0, !.sleeps = 0]

\* Mutant of begin_export: the reset removes the whole project folder.
begin_export_purging(tk, fd, rm_ok) ==
  [tk |-> [tk EXCEPT !.description = "Exporting issues...",
                     !.parsed_issues = 0,
                     !.counts = [resolved |-> 0, unresolved |-> 0,
                                 attachments |-> 0],
                     !.batch = 1,
                     !.pc = "page_wait",
                     !.reset_done = TRUE,
                     !.last_skip = 0],
   fd |-> [fd EXCEPT !.issues_dir = FALSE, !.issues = <<>>,
                     !.attachments = {}, !.metadata = NoMetadata]]

\* _export_project, lines 154-176: the locals, the reset of issues/ and the
\* first page request.
begin_export(tk, fd, rm_ok) ==
  LET t1 == [tk EXCEPT !.description = "Exporting issues...",
                       !.parsed_issues = 0,
                       !.counts = [resolved |-> 0, unresolved |-> 0,
                                   attachments |-> 0],
                       !.batch = 1]
  IN IF fd.issues_dir /\ ~rm_ok
     THEN [tk |-> Fail(t1, "reset", "Failed to remove current project folder."),
           fd |-> fd]
     ELSE [tk |-> [t1 EXCEPT !.pc = "page_wait",
                             !.reset_done = TRUE,
                             !.last_skip = t1.parsed_issues],
           fd |-> [fd EXCEPT !.issues_dir = FALSE, !.issues = <<>>]]

\* Mutant of after_poll: the exporter runs whatever the count.
after_poll_always_exports(tk, fd, total, rm_ok) ==
  begin_export([tk EXCEPT !.polled = TRUE, !.issues_total = total,
                          !.visible = IF total = 0 THEN FALSE ELSE @],
               fd, rm_ok)

\* _initiate_export, lines 94-107, once polling has returned total
after_poll(tk, fd, total, rm_ok) ==
  LET t1 == [tk EXCEPT !.polled = TRUE, !.issues_total = total,
                       !.visible = IF total = 0 THEN FALSE ELSE @]
  IN IF total > 0
     THEN begin_export(t1, fd, rm_ok)
     ELSE [tk |-> Finish(t1, 0), fd |-> fd]

\* Mutant of on_null: a body without count is taken for a failure.
on_null_raises(tk, fd, rm_ok) ==
  [tk |-> Fail(tk, "count", "Failed to fetch issues count."), fd |-> fd]

\* _get_project_issues_count_with_polling, lines 132-133: None counts as 0
on_null(tk, fd, rm_ok) == after_poll(tk, fd, 0, rm_ok)

\* Mutant of is_ready: only a positive count ends the polling.
is_ready_positive(issues_total) == issues_total > 0

\* _get_project_issues_count_with_polling, line 135
is_ready(issues_total) == issues_total # -1

\* Mutant of has_next_attempt: range(1, max_attempts + 2)
has_next_attempt_one_more(attempt) == attempt <= max_attempts

\* _get_project_issues_count_with_polling, line 129: range(1, max_attempts + 1)
has_next_attempt(attempt) == attempt + 1 <= max_attempts

\* Mutant of deliver: a pipeline's exception escapes and takes the pipelines
\* still running down with it.
deliver_cancelling(p, tk) ==
  [q \in Projects |->
     IF q = p THEN tk
     ELSE IF tk.failure # None /\ q \in projects /\ task[q].pc # "done"
     THEN [task[q] EXCEPT !.pc = "done", !.description = "Error exporting",
                          !.error = tk.error]
     ELSE task[q]]

\* Export.export, line 78, with _initiate_export, lines 108-113: whatever a
\* pipeline's step ends in, an exception included, stays in its own task;
\* gather(..., return_exceptions=True) collects and cancels nothing.
deliver(p, tk) == [task EXCEPT ![p] = tk]

\* ------------------------------------------------------------- actions
\* _initiate_export up to the first count request (lines 90-130)
StartTask(p) ==
  /\ running = None
  /\ p \in projects
  /\ task[p].pc = "pending"
  /\ task' = deliver(p, [task[p] EXCEPT
                            !.pc = "count_wait",
                            !.description = "Fetching issues count...",
                            !.attempt = 1,
                            !.count_calls = @ + 1])
  /\ UNCHANGED <<call, projects, export_items, batch_size, run, running, signalled,
                 disk, issued>>

\* Mutant of poll_step: a failed count request is polled again like a
\* sentinel.
poll_step_retrying(tk, fd, a, rm_ok) ==
  CASE a.kind = "null" ->
         on_null(leave_poll([tk EXCEPT !.answer = a]), fd, rm_ok)
    [] a.kind = "count" /\ is_ready(a.v) ->
         after_poll(leave_poll([tk EXCEPT !.answer = a,
                                          !.description =
                                             "Issues count complete."]),
                    fd, a.v, rm_ok)
    [] OTHER ->
         [tk |-> [tk EXCEPT !.pc = "sleep",
                            !.answer = a,
                            !.description = "Loading issues count...",
                            !.sentinels = @ + 1],
          fd |-> fd]

\* The count request returns (lines 130-140), and the pipeline runs on to its
\* next await or to its end.
poll_step(tk, fd, a, rm_ok) ==
  CASE a.kind = "error" ->
         [tk |-> Fail(leave_poll([tk EXCEPT !.answer = a]), "count",
                      "Failed to fetch issues count."),
          fd |-> fd]
    [] a.kind = "null" ->
         on_null(leave_poll([tk EXCEPT !.answer = a]), fd, rm_ok)
    [] a.kind = "count" /\ is_ready(a.v) ->
         after_poll(leave_poll([tk EXCEPT !.answer = a,
                                          !.description =
                                             "Issues count complete."]),
                    fd, a.v, rm_ok)
    [] OTHER ->
         [tk |-> [tk EXCEPT !.pc = "sleep",
                            !.answer = a,
                            !.description = "Loading issues count...",
                            !.sentinels = @ + 1],
          fd |-> fd]

CountResponse(p) ==
  /\ running = None
  /\ p \in projects
  /\ task[p].pc = "count_wait"
  /\ \E a \in CountAnswers, rm_ok \in BOOLEAN :
       LET f == get_project_folder(p)
           r == poll_step(task[p], disk[f], a, rm_ok)
       IN /\ task' = deliver(p, r.tk)
          /\ disk' = [disk EXCEPT ![f] = r.fd]
  /\ UNCHANGED <<call, projects, export_items, batch_size, run, running, signalled,
                 issued>>

\* asyncio.sleep(delay) ends (line 140): the next attempt, or line 142.
after_sleep(tk) ==
  IF has_next_attempt(tk.attempt)
  THEN [tk EXCEPT !.pc = "count_wait", !.attempt = @ + 1,
                  !.count_calls = @ + 1, !.sleeps = @ + 1]
  ELSE Fail(leave_poll(tk), "sentinels", "Failed to fetch issues count.")

Wake(p) ==
  /\ running = None
  /\ p \in projects
  /\ task[p].pc = "sleep"
  /\ task' = deliver(p, after_sleep(task[p]))
  /\ UNCHANGED <<call, projects, export_items, batch_size, run, running, signalled,
                 disk, issued>>

\* _export_project, lines 185-188
classify(counts, issue) ==
  IF issue.resolved
  THEN [counts EXCEPT !.resolved = @ + 1]
  ELSE [counts EXCEPT !.unresolved = @ + 1]

\* What json.load finds in batch file b: its array, or nothing when the file
\* holds no complete JSON document (lines 223-229).
read_batch(fd, b) ==
  IF b \in DOMAIN fd.issues /\ fd.issues[b].valid
  THEN fd.issues[b].data ELSE <<>>

\* Mutant of _save_issue_to_disk: every issue saved also rewrites
\* metadata.json.
save_issue_with_metadata(fd, issue, b, o) ==
  [fd EXCEPT !.exists = TRUE, !.issues_dir = TRUE,
             !.issues = (b :> [valid |-> TRUE, run |-> run,
                               data |-> <<issue.id>>]) @@ @,
             !.metadata = [NoMetadata EXCEPT !.state = "valid",
                                             !.export_date = run]]

\* _save_issue_to_disk, lines 217-242.  A batch file is recorded as the ids
\* of the issues in its array, in order, and the run that wrote it last; a
\* file whose rewrite failed after the truncate holds no complete JSON
\* document.
_save_issue_to_disk(fd, issue, b, o) ==
  LET f1 == [fd EXCEPT !.exists = TRUE, !.issues_dir = TRUE]
  IN CASE o = "ok" ->
            [f1 EXCEPT !.issues =
               (b :> [valid |-> TRUE, run |-> run,
                      data |-> Append(read_batch(fd, b), issue.id)]) @@ @]
       [] o = "fail_write" ->
            [f1 EXCEPT !.issues =
               (b :> [valid |-> FALSE, run |-> run, data |-> <<>>]) @@ @]
       [] OTHER -> f1

\* Mutant of next_batch: the rollover comes one issue early.
next_batch_early(parsed, b) == IF (parsed + 1) % batch_size = 0 THEN b + 1 ELSE b

\* _export_project, lines 199-200
next_batch(parsed, b) == IF parsed % batch_size = 0 THEN b + 1 ELSE b

\* Mutant of next_skip: the offset advances by whole pages of the limit.
next_skip_by_limit(parsed) == ((parsed + MaxPage - 1) \div MaxPage) * MaxPage

\* _export_project, line 176: skip=parsed_issues
next_skip(parsed) == parsed

\* _export_project, lines 196-200, then the next issue of the page or, after
\* the last one, the next page request (line 176).
finish_issue(tk) ==
  LET parsed == tk.parsed_issues + 1
      rest == Tail(tk.page)
      t1 == [tk EXCEPT !.parsed_issues = parsed,
                       !.batch = next_batch(parsed, @),
                       !.page = rest,
                       !.att_left = 0,
                       !.att_count = 0]
  IN IF rest = <<>>
     THEN [t1 EXCEPT !.pc = "page_wait",
                     !.last_skip = next_skip(parsed)]
     ELSE [t1 EXCEPT !.pc = "issue"]

\* Mutant of round4: the rate is cut off after four decimals.
round4_truncates(resolved, total) == (10000 * resolved) \div total

\* Python's round(resolved / total, 4) in units of 1/10000 (ties to even).
round4(resolved, total) ==
  LET q == (10000 * resolved) \div total
      r == (10000 * resolved) % total
  IN IF 2 * r > total \/ (2 * r = total /\ q % 2 = 1) THEN q + 1 ELSE q

\* _save_project_metadata, lines 285-294
metadata_of(counts) ==
  LET total == counts.resolved + counts.unresolved
  IN [ state |-> "valid",
       export_date |-> run,
       total_issues |-> total,
       resolved_count |-> counts.resolved,
       unresolved_count |-> counts.unresolved,
       resolution_rate |-> IF total # 0 THEN round4(counts.resolved, total) ELSE 0,
       total_attachments |-> counts.attachments ]

\* _save_project_metadata, lines 296-301: open(..., 'w') and json.dump
_save_project_metadata(fd, counts, o) ==
  LET f1 == [fd EXCEPT !.exists = TRUE]
  IN CASE o = "ok" -> [f1 EXCEPT !.metadata = metadata_of(counts)]
       [] o = "fail_write" ->
            [f1 EXCEPT !.metadata = [NoMetadata EXCEPT !.state = "partial"]]
       [] OTHER -> f1

\* Mutant of loop_ends: the loop also stops once the polled total is reached.
loop_ends_at_total(tk, issues) ==
  issues = <<>> \/ tk.parsed_issues >= tk.issues_total

\* _export_project, lines 179-180
loop_ends(tk, issues) == issues = <<>>

\* Mutant of end_of_listing: metadata is written inside the loop, which goes
\* on to the next page request.
end_of_listing_in_loop(tk, fd, o) ==
  [tk |-> [tk EXCEPT !.meta_writes = 1, !.pc = "page_wait"],
   fd |-> _save_project_metadata(fd, tk.counts, "ok")]

\* _export_project, lines 204-206, and the return to _initiate_export
end_of_listing(tk, fd, o) ==
  LET f1 == _save_project_metadata(fd, tk.counts, o)
  IN IF o = "ok"
     THEN [tk |-> Finish([tk EXCEPT !.meta_writes = @ + 1], tk.parsed_issues),
           fd |-> f1]
     ELSE [tk |-> Fail(tk, "metadata", "Failed to write metadata file."),
           fd |-> f1]

\* The page request fails (lines 201-202), or returns a page (lines 176-183).
PageResponse(p) ==
  /\ running = None
  /\ p \in projects
  /\ task[p].pc = "page_wait"
  /\ \/ /\ task' = deliver(p, Fail(task[p], "page",
                                      "Failed to export issues."))
        /\ UNCHANGED <<disk, issued, running>>
     \/ \E issues \in Pages(p, task[p].last_skip), o \in WriteOutcomes :
          LET f == get_project_folder(p)
              tk == [task[p] EXCEPT !.last_page =
                                      IF issues = <<>> THEN "empty" ELSE "issues"]
              r == end_of_listing(tk, disk[f], o)
          IN IF loop_ends(tk, issues)
             THEN /\ task' = deliver(p, r.tk)
                  /\ disk' = [disk EXCEPT ![f] = r.fd]
                  /\ UNCHANGED <<issued, running>>
             ELSE /\ issues # <<>>
                  /\ task' = deliver(p, [tk EXCEPT !.pc = "issue",
                                                    !.page = issues])
                  /\ running' = p
                  /\ issued' = issued + Len(issues)
                  /\ UNCHANGED disk
  /\ UNCHANGED <<call, projects, export_items, batch_size, run, signalled>>

\* _export_project, line 172
export_attachments == "Attachments" \in export_items

\* One turn of the for loop (lines 183-200) up to the attachments.
ProcessIssue(p) ==
  /\ running = p
  /\ task[p].pc = "issue"
  /\ \E o \in WriteOutcomes :
       LET f == get_project_folder(p)
           issue == Head(task[p].page)
           t1 == [task[p] EXCEPT !.counts = classify(@, issue)]
           t2 == IF o # "ok"
                 THEN Fail(t1, "batch", "Failed to export issues.")
                 ELSE IF export_attachments /\ issue.attachments > 0
                 THEN [t1 EXCEPT !.pc = "attach",
                                 !.att_left = issue.attachments,
                                 !.att_count = 0]
                 ELSE finish_issue(t1)
       IN /\ task' = deliver(p, t2)
          /\ disk' = [disk EXCEPT ![f] =
                        _save_issue_to_disk(@, issue, task[p].batch, o)]
          /\ running' = IF t2.pc \in {"issue", "attach"} THEN p ELSE None
  /\ UNCHANGED <<call, projects, export_items, batch_size, run, signalled, issued>>

\* _save_project_attachments, lines 262-275: one attachment is fetched with
\* the blocking requests session and written, or the fetch or write fails.
DownloadAttachment(p) ==
  /\ running = p
  /\ task[p].pc = "attach"
  /\ \E ok \in BOOLEAN :
       LET f == get_project_folder(p)
           tk == task[p]
           issue == Head(tk.page)
           k == issue.attachments - tk.att_left + 1
           t1 == [tk EXCEPT !.att_count = @ + 1, !.att_left = @ - 1]
           t2 == IF ~ok
                 THEN Fail(tk, "attachment", "Failed to export issues.")
                 ELSE IF t1.att_left = 0
                 THEN finish_issue([t1 EXCEPT !.counts.attachments =
                                                 @ + t1.att_count])
                 ELSE t1
       IN /\ task' = deliver(p, t2)
          /\ disk' = [disk EXCEPT ![f] =
                        IF ok
                        THEN [@ EXCEPT !.exists = TRUE,
                                       !.attachments =
                                          @ \cup {[issue |-> issue.id, k |-> k]}]
                        ELSE [@ EXCEPT !.exists = TRUE]]
          /\ running' = IF t2.pc \in {"issue", "attach"} THEN p ELSE None
  /\ UNCHANGED <<call, projects, export_items, batch_size, run, signalled, issued>>

\* Mutant of ExportComplete: the signal does not wait for the pipelines.
ExportComplete_early ==
  /\ running = None
  /\ signalled = 0
  /\ signalled' = signalled + 1
  /\ UNCHANGED <<call, projects, export_items, batch_size, run, running, task, disk,
                 issued>>

\* Export.export, lines 78-80: gather has every result; 'Export Complete!'.
ExportComplete ==
  /\ running = None
  /\ signalled = 0
  /\ \A p \in projects : task[p].pc = "done"
  /\ signalled' = signalled + 1
  /\ UNCHANGED <<call, projects, export_items, batch_size, run, running, task, disk,
                 issued>>

\* app.py, lines 34-47 and 144: back in the menu, the user exports again; a
\* new Export object with fresh progress tasks, the same files on disk.
StartRun ==
  /\ signalled = 1
  /\ run < RunsOf(projects)
  /\ run' = run + 1
  /\ signalled' = 0
  /\ task' = [p \in Projects |-> NewTask]
  /\ UNCHANGED <<call, projects, export_items, batch_size, running, disk, issued>>

\* Export.__init__, lines 42-45: the strings are parsed, then export() runs.
Construct ==
  /\ call.fn = "Export"
  /\ call.state = "called"
  /\ LET r == _parse_projects(call.arg)
     IN /\ call' = [call EXCEPT !.state = IF r.ok THEN "returned" ELSE "raised",
                                !.out = r.value]
        /\ projects' =
             IF r.ok
             THEN {p \in Projects : Position(p) <= Len(r.value)}
             ELSE {}
  /\ UNCHANGED <<export_items, batch_size, run, running, signalled, task,
                 disk, issued>>

Step(p) ==
  \/ StartTask(p)
  \/ CountResponse(p)
  \/ Wake(p)
  \/ PageResponse(p)
  \/ ProcessIssue(p)
  \/ DownloadAttachment(p)

Next ==
  \/ \E p \in Projects : Step(p)
  \/ ExportComplete
  \/ StartRun

Spec == Init /\ [][Next]_vars

\* A session that starts at Export(client, projects, export_items): nothing
\* is parsed yet, no pipeline exists.
CtorInit ==
  /\ call \in { [fn |-> "Export", arg |-> l, state |-> "called", out |-> <<>>] :
                   l \in SelectedLists }
  /\ projects = {}
  /\ export_items \in ItemSets
  /\ batch_size = default_batch_size
  /\ run = 1
  /\ running = None
  /\ signalled = 0
  /\ task = [p \in Projects |-> NewTask]
  /\ disk = [f \in Folders |-> EmptyFolder]
  /\ issued = 0

\* asyncio.run(self.export()) follows the parse in __init__ (line 45): no
\* pipeline exists before it, and none if the parse raised.
Exported ==
  /\ call.state = "returned"
  /\ ExportComplete

CtorNext ==
  \/ Construct
  \/ \E p \in Projects : Step(p)
  \/ Exported

CtorSpec == CtorInit /\ [][CtorNext]_vars

\* ---------------------------------------------- one call of one function
pipeline_vars ==
  <<projects, export_items, batch_size, run, running, signalled, task, disk,
    issued>>

\* No Export object: one function is called on one argument.
FnInit ==
  /\ call \in FnCalls
  /\ projects = {}
  /\ export_items = {}
  /\ batch_size = default_batch_size
  /\ run = 1
  /\ running = None
  /\ signalled = 0
  /\ task = [p \in Projects |-> NewTask]
  /\ disk = [f \in Folders |-> EmptyFolder]
  /\ issued = 0

\* _parse_projects on the string app.py builds from a name and an id
ParseEncoded ==
  /\ call.fn = "_parse_projects"
  /\ call.state = "called"
  /\ LET r == _parse_projects(<<project_string(call.arg.name, call.arg.id)>>)
     IN call' = [call EXCEPT !.state = IF r.ok THEN "returned" ELSE "raised",
                             !.out = r.value]
  /\ UNCHANGED pipeline_vars

ParseQuery ==
  /\ call.fn = "_parse_query"
  /\ call.state = "called"
  /\ call' = [call EXCEPT !.state = "returned", !.out = _parse_query(call.arg)]
  /\ UNCHANGED pipeline_vars

ParseFields ==
  /\ call.fn = "_parse_fields_from_export_items"
  /\ call.state = "called"
  /\ call' = [call EXCEPT !.state = "returned",
                          !.out = _parse_fields_from_export_items(call.arg)]
  /\ UNCHANGED pipeline_vars

\* The file name _save_project_attachments builds for attachment.get('id')
\* and attachment.get('name')
NameAttachment ==
  /\ call.fn = "attachment_file_name"
  /\ call.state = "called"
  /\ call' = [call EXCEPT
                !.state = "returned",
                !.out = attachment_file_name(call.arg.id,
                                             call.arg.base \o call.arg.ext)]
  /\ UNCHANGED pipeline_vars

FnNext == ParseEncoded \/ ParseQuery \/ ParseFields \/ NameAttachment

FnSpec == FnInit /\ [][FnNext]_vars

\* The event loop keeps running coroutines while one is ready, every HTTP
\* call and every delay comes to an end (aiohttp and requests time out), and
\* gather returns once all pipelines have.  Whether the user exports again
\* is open.
FairSpec ==
  /\ Spec
  /\ WF_vars(\E p \in Projects : Step(p))
  /\ WF_vars(ExportComplete)

\* ============================================================ properties
\* Steps of pipeline p, read off two consecutive states.
CountAnswered(p) == task[p].pc = "count_wait" /\ task'[p].pc # "count_wait"
CountCalled(p) == task[p].pc # "count_wait" /\ task'[p].pc = "count_wait"
PageCalled(p) == task[p].pc # "page_wait" /\ task'[p].pc = "page_wait"

IsError(tk) == tk.description = "Error exporting"
IsComplete(tk) == tk.description = "Complete!"

\* C1: when the count endpoint has answered the sentinel k times
\* (0 <= k < max_attempts) and then answers a real count C, polling returns C:
\* k + 1 requests were sent by then, and none is sent afterwards.
C1_PollingReturnsAfterKPlusOneCalls ==
  [][\A p \in Projects :
       /\ (CountAnswered(p) /\ task'[p].answer.kind = "count"
              /\ task'[p].answer.v # -1)
            => /\ task[p].sentinels < max_attempts
               /\ task[p].count_calls = task[p].sentinels + 1
               /\ task'[p].polled
               /\ task'[p].issues_total = task'[p].answer.v
               /\ task'[p].pc \notin {"sleep", "count_wait"}
       /\ (task[p].polled => ~CountCalled(p))
    ]_vars

\* C1 witness: nine sentinels were answered and the tenth request is out.
C1_Witness ==
  \E p \in Projects :
    /\ task[p].pc = "count_wait"
    /\ task[p].sentinels = max_attempts - 1
    /\ task[p].count_calls = max_attempts

\* C2: polling never sends more than max_attempts requests; when every one of
\* them was answered by the sentinel, the pipeline fails with an export
\* error: its project is in the Error state, no issue page was requested and
\* nothing of the other projects or of the disk changed.
C2_PollingIsBounded ==
  /\ [](\A p \in Projects : task[p].count_calls <= max_attempts
                             /\ task[p].sentinels <= task[p].count_calls)
  /\ [][\A p \in Projects :
          (task[p].pc = "sleep" /\ task[p].sentinels = max_attempts
             /\ task'[p] # task[p])
            => /\ task[p].count_calls = max_attempts
               /\ task'[p].pc = "done"
               /\ IsError(task'[p])
               /\ task'[p].error = "Failed to fetch issues count."
               /\ ~task'[p].reset_done
               /\ ~task'[p].polled
               /\ disk' = disk
               /\ \A q \in Projects \ {p} : task'[q] = task[q]
       ]_vars
  /\ [](\A p \in Projects :
          task[p].failure = "sentinels"
            => task[p].pc = "done" /\ IsError(task[p]) /\ ~task[p].reset_done)

\* C2 witness: a pipeline that ran out of attempts, beside one still running.
C2_Witness ==
  \E p, q \in projects :
    /\ task[p].failure = "sentinels"
    /\ task[q].pc = "page_wait"

\* C3: once the count endpoint has answered null, polling has returned 0 at
\* once: the pipeline is over, hidden and Complete with a total of 0, without
\* error; it is never found waiting for a delay or for another count request.
C3_NullCountsAsZero ==
  \A p \in Projects :
    task[p].answer.kind = "null"
      => /\ task[p].pc = "done"
         /\ task[p].polled
         /\ task[p].issues_total = 0
         /\ task[p].failure = None
         /\ task[p].error = None
         /\ IsComplete(task[p])
         /\ ~task[p].visible
         /\ ~task[p].reset_done

\* C3 witness: null was the answer while a sibling is still polling.
C3_Witness ==
  \E p, q \in projects :
    /\ task[p].answer.kind = "null"
    /\ task[q].pc = "sleep"

FolderOf(p) == disk[get_project_folder(p)]

\* The issues held by the complete batch files of a folder.
RECURSIVE IssuesIn(_, _)
IssuesIn(files, bs) ==
  IF bs = {} THEN 0
  ELSE LET b == CHOOSE x \in bs : TRUE
       IN Len(files[b].data) + IssuesIn(files, bs \ {b})

IssuesOnDisk(fd) == IssuesIn(fd.issues, DOMAIN fd.issues)

\* C4: a step of one pipeline, a failing one included, changes neither the
\* state of another pipeline nor another project's folder; only a pipeline
\* that failed itself is in the Error state; a pipeline that is not over can
\* always take its next step; and a pipeline that ended without a failure of
\* its own after a positive count has written its metadata and holds every
\* issue it processed in complete batch files.
C4_FailuresAreIsolated ==
  /\ [][\A p \in Projects :
          (task'[p] # task[p] /\ run' = run)
            => /\ \A q \in Projects \ {p} : task'[q] = task[q]
               /\ \A f \in Folders \ {get_project_folder(p)} :
                    disk'[f] = disk[f]
       ]_vars
  /\ [](\A q \in Projects : IsError(task[q]) <=> task[q].failure # None)
  /\ [](\A q \in projects :
          (task[q].pc # "done" /\ running \in {None, q}) => ENABLED Step(q))
  /\ [](\A q \in projects :
          (task[q].pc = "done" /\ task[q].failure = None
             /\ task[q].issues_total > 0)
            => /\ task[q].meta_writes = 1
               /\ FolderOf(q).metadata.state = "valid"
               /\ FolderOf(q).metadata.export_date = run
               /\ \A b \in DOMAIN FolderOf(q).issues :
                    FolderOf(q).issues[b].valid
               /\ IssuesOnDisk(FolderOf(q)) = task[q].parsed_issues)

\* C4 witness: one project in the Error state, its sibling finished with
\* batch files and metadata.
C4_Witness ==
  \E p, q \in projects :
    /\ IsError(task[p])
    /\ task[q].pc = "done"
    /\ task[q].failure = None
    /\ task[q].parsed_issues > 0
    /\ FolderOf(q).metadata.state = "valid"
    /\ signalled = 1

\* Every batch file of p's folder, and every issue in it, is of the current run.
OnlyCurrentRun(p) ==
  \A b \in DOMAIN FolderOf(p).issues :
    /\ FolderOf(p).issues[b].run = run
    /\ \A j \in 1..Len(FolderOf(p).issues[b].data) :
         FolderOf(p).issues[b].data[j].run = run

\* C5: after a second run of a project that ended without any failure,
\* whatever count and pages the server returned, issues/ holds only batch
\* files written by that run.
C5_IssuesFolderIsIdempotent ==
  \A p \in projects :
    (run > 1 /\ signalled = 1 /\ task[p].failure = None) => OnlyCurrentRun(p)

\* What the reset of lines 164-170 does give: once a run has removed issues/
\* and requested the listing, issues/ holds only batch files of this run.
IssuesFolderOfAStartedExport ==
  \A p \in projects : task[p].reset_done => OnlyCurrentRun(p)

Ceil(m, n) == (m + n - 1) \div n

\* Issues appended by p's run so far: the ones counted in parsed_issues and
\* the one whose attachments are being downloaded.
Appended(p) ==
  task[p].parsed_issues
    + (IF task[p].pc = "attach" \/ task[p].failure = "attachment" THEN 1 ELSE 0)

\* C6: in a run that has started exporting and in which no batch write has
\* failed, with M issues appended and batch size N there are exactly
\* ceil(M/N) batch files, numbered 1..ceil(M/N); each but the last holds N
\* issues, the last M - (ceil(M/N) - 1) * N; and the i-th issue of the listing
\* is entry i - (ceil(i/N) - 1) * N of file ceil(i/N).
C6_BatchRollover ==
  \A p \in projects :
    (task[p].reset_done /\ task[p].failure # "batch")
      => LET files == FolderOf(p).issues
             M == Appended(p)
             K == Ceil(M, batch_size)
         IN /\ DOMAIN files = 1..K
            /\ \A b \in DOMAIN files :
                 /\ files[b].valid
                 /\ Len(files[b].data) =
                      (IF b < K THEN batch_size ELSE M - (K - 1) * batch_size)
                 /\ \A j \in 1..Len(files[b].data) :
                      files[b].data[j] =
                        [run |-> run, project |-> p,
                         n |-> (b - 1) * batch_size + j]

\* C6 witness: a finished run with one full batch file and a second one begun.
C6_Witness ==
  \E p \in projects :
    /\ IsComplete(task[p])
    /\ task[p].parsed_issues = batch_size + 1
    /\ DOMAIN FolderOf(p).issues = {1, 2}
    /\ Len(FolderOf(p).issues[1].data) = batch_size
    /\ Len(FolderOf(p).issues[2].data) = 1

Abs(x) == IF x < 0 THEN -x ELSE x

\* C7: the metadata a run has written holds total_issues = resolved_count +
\* unresolved_count = the issues processed, total_attachments = the
\* attachments counter, and resolution_rate = the multiple of 1/10000 nearest
\* to resolved_count / total_issues, 0 when total_issues is 0; resolved = 7,
\* unresolved = 3, attachments = 12 give 10, 0.7000 and 12.
C7_MetadataCorrect ==
  /\ \A p \in projects :
       task[p].meta_writes > 0
         => LET md == FolderOf(p).metadata
                c == task[p].counts
            IN /\ md.state = "valid"
               /\ md.total_issues = md.resolved_count + md.unresolved_count
               /\ md.total_issues = task[p].parsed_issues
               /\ md.resolved_count = c.resolved
               /\ md.unresolved_count = c.unresolved
               /\ md.total_attachments = c.attachments
               /\ IF md.total_issues = 0
                  THEN md.resolution_rate = 0
                  ELSE 2 * Abs(md.resolution_rate * md.total_issues
                                 - 10000 * md.resolved_count)
                         <= md.total_issues
  /\ LET ex == metadata_of([resolved |-> 7, unresolved |-> 3,
                            attachments |-> 12])
     IN ex.total_issues = 10 /\ ex.resolution_rate = 7000
          /\ ex.total_attachments = 12

\* C7 witness: metadata of a run with two resolved issues out of three.
C7_Witness ==
  \E p \in projects :
    /\ task[p].meta_writes > 0
    /\ FolderOf(p).metadata.total_issues = 3
    /\ FolderOf(p).metadata.resolved_count = 2
    /\ FolderOf(p).metadata.resolution_rate = 6667

\* C8: the issue loop ends without error only on an empty page, and it ends
\* on the first one; after a page with issues the pipeline goes on, to the
\* next issue or the next page request, whether the issues processed are
\* fewer than, as many as or more than the polled total.
C8_EmptyPageEndsTheLoop ==
  \A p \in projects :
    /\ task[p].last_page = "empty" => task[p].pc = "done"
    /\ (task[p].reset_done /\ task[p].pc = "done" /\ task[p].failure = None)
         => task[p].last_page = "empty"
    /\ (task[p].last_page = "issues" /\ task[p].failure = None)
         => task[p].pc \in {"issue", "attach", "page_wait"}
    /\ (task[p].pc = "page_wait" /\ running = None) => ENABLED PageResponse(p)

\* C8 witness: more issues processed than the polled total, and the next
\* page is requested.
C8_Witness ==
  \E p \in projects :
    /\ task[p].pc = "page_wait"
    /\ task[p].last_page = "issues"
    /\ task[p].parsed_issues > task[p].issues_total

BatchWritten(p) ==
  \E b \in DOMAIN FolderOf(p).issues' :
    b \notin DOMAIN FolderOf(p).issues
      \/ FolderOf(p).issues'[b] # FolderOf(p).issues[b]

MetadataWritten(p) == FolderOf(p).metadata' # FolderOf(p).metadata

\* C9: within one pipeline a count request is sent only before polling has
\* returned, before any page request and before the metadata write; page
\* requests and batch writes happen only after polling has returned and
\* before the metadata write; the metadata write is the pipeline's last step.
C9_CountThenExportThenMetadata ==
  /\ [](\A p \in projects :
          /\ task[p].pc \in {"pending", "count_wait", "sleep"}
               => /\ ~task[p].polled
                  /\ ~task[p].reset_done
                  /\ task[p].last_page = None
                  /\ task[p].meta_writes = 0
          /\ task[p].pc \in {"page_wait", "issue", "attach"}
               => /\ task[p].polled
                  /\ task[p].reset_done
                  /\ task[p].meta_writes = 0
          /\ task[p].meta_writes > 0 => task[p].pc = "done")
  /\ [][\A p \in projects :
          /\ CountCalled(p)
               => /\ ~task[p].polled
                  /\ ~task[p].reset_done
                  /\ task[p].meta_writes = 0
          /\ (PageCalled(p) \/ BatchWritten(p))
               => /\ task'[p].polled
                  /\ task'[p].meta_writes = 0
                  /\ ~MetadataWritten(p)
          /\ MetadataWritten(p)
               => /\ task[p].pc = "page_wait"
                  /\ task'[p].pc = "done"
          /\ (task[p].pc = "done" /\ run' = run)
               => /\ task'[p] = task[p]
                  /\ FolderOf(p)' = FolderOf(p)
       ]_vars

\* C9 witness: a pipeline that polled, wrote a batch file and then metadata.
C9_Witness ==
  \E p \in projects :
    /\ task[p].meta_writes = 1
    /\ task[p].polled
    /\ DOMAIN FolderOf(p).issues # {}
    /\ FolderOf(p).metadata.total_issues = task[p].parsed_issues

\* C10: within a run, a progress task that shows Complete or Error is not
\* changed by any later step; Error is entered only while the task shows one
\* of the counting descriptions or 'Exporting issues...', and it carries the
\* failure message.
C10_CompleteAndErrorAreTerminal ==
  /\ [][\A p \in Projects :
          /\ ((IsComplete(task[p]) \/ IsError(task[p])) /\ run' = run)
               => task'[p] = task[p]
          /\ (IsError(task'[p]) /\ ~IsError(task[p]))
               => /\ task[p].description \in
                       { "Fetching issues count...",
                         "Loading issues count...",
                         "Exporting issues..." }
                  /\ task'[p].error \in
                       { "Failed to fetch issues count.",
                         "Failed to remove current project folder.",
                         "Failed to export issues.",
                         "Failed to write metadata file." }
       ]_vars
  /\ [](\A p \in Projects : IsError(task[p]) => task[p].error # None)

\* C10 witness: one project shows Error, another Complete, and the run has
\* been reported complete after steps of both.
C10_Witness ==
  \E p, q \in projects :
    /\ IsError(task[p])
    /\ task[p].reset_done
    /\ IsComplete(task[q])
    /\ task[q].parsed_issues > 0
    /\ signalled = 1

\* C11: in every run 'Export Complete!' is printed at most once, and only
\* when every pipeline launched in the run is over; no pipeline takes a step
\* after it; and with every call answered it is eventually printed in every
\* run, whatever the pipelines ended in (a run begins with the signal not
\* yet printed, and the next run begins only after it).
C11_CompletionIsSignalledOnce ==
  /\ [](signalled \in {0, 1})
  /\ [][ (signalled' # signalled /\ run' = run)
           => /\ signalled = 0
              /\ signalled' = 1
              /\ running = None
              /\ \A p \in projects : task[p].pc = "done"
              /\ task' = task ]_vars
  /\ [][ (signalled = 1 /\ run' = run)
           => (signalled' = 1 /\ task' = task /\ disk' = disk) ]_vars
  /\ (signalled = 0) ~> (signalled = 1)

\* C11 witness: the signal of a second run, after a first run in which the
\* project failed and a second in which it did not.
C11_Witness ==
  \E p \in projects :
    /\ run = 2
    /\ signalled = 1
    /\ IsComplete(task[p])
    /\ FolderOf(p).metadata.state = "partial"

\* The delimiter occurs in s.
HasDelimiter(s) ==
  \E i \in 1..(Len(s) - Len(Delimiter) + 1) :
    SubSeq(s, i, i + Len(Delimiter) - 1) = Delimiter

\* C12: when a string of the list handed to Export, at whatever position,
\* lacks "| ID:", the constructor raises and nothing else ever happens: no
\* project is taken up, no pipeline leaves its initial state (no request, no
\* delay), no folder or file is created or removed, no completion is printed.
C12_MalformedInputFailsFast ==
  (call.fn = "Export" /\ \E i \in 1..Len(call.arg) : ~HasDelimiter(call.arg[i]))
    => /\ call.state \in {"called", "raised"}
       /\ projects = {}
       /\ \A p \in Projects : task[p] = NewTask
       /\ \A f \in Folders : disk[f] = EmptyFolder
       /\ running = None
       /\ issued = 0
       /\ signalled = 0

\* C12 witness: the constructor raised on a list whose first and third
\* strings are well-formed and whose second is not.
C12_Witness ==
  /\ call.fn = "Export"
  /\ call.state = "raised"
  /\ Len(call.arg) = 3
  /\ HasDelimiter(call.arg[1])
  /\ ~HasDelimiter(call.arg[2])
  /\ HasDelimiter(call.arg[3])

\* C13: a project whose pipeline has sent a request has a non-empty id.
C13_PipelineProjectsHaveAnId ==
  \A p \in projects : task[p].pc # "pending" => ProjectId(p) # <<>>

\* The projects with issues in the batch files or attachments of folder f.
Writers(f) ==
  { p \in Projects :
      \/ \E b \in DOMAIN disk[f].issues :
           \E j \in 1..Len(disk[f].issues[b].data) :
             disk[f].issues[b].data[j].project = p
      \/ \E a \in disk[f].attachments : a.issue.project = p }

\* C19: when the selected projects have pairwise distinct ids, no folder
\* holds files written by the pipelines of two projects.
C19_FoldersHaveOneOwner ==
  (\A p, q \in projects : p # q => ProjectId(p) # ProjectId(q))
    => \A f \in Folders : Cardinality(Writers(f)) <= 1

\* sub occurs in s.
Contains(s, sub) ==
  \E i \in 1..(Len(s) - Len(sub) + 1) : SubSeq(s, i, i + Len(sub) - 1) = sub

\* C14: for a name without "| ID:" and a non-empty id, parsing the string
\* "<name> | ID:<id>" returns the trimmed id and the trimmed name.
C14_ParseInvertsEncode ==
  (/\ call.fn = "_parse_projects"
   /\ call.state # "called"
   /\ ~HasDelimiter(call.arg.name)
   /\ call.arg.id # <<>>)
    => /\ call.state = "returned"
       /\ call.out = <<[id |-> strip(call.arg.id), name |-> strip(call.arg.name)]>>

\* What the parse does give: the round trip for ids that do not contain the
\* delimiter either.
RoundTripWithoutDelimiterInId ==
  (/\ call.fn = "_parse_projects"
   /\ call.state # "called"
   /\ ~HasDelimiter(call.arg.name)
   /\ ~HasDelimiter(call.arg.id))
    => /\ call.state = "returned"
       /\ call.out = <<[id |-> strip(call.arg.id), name |-> strip(call.arg.name)]>>

StateItems == {"Unresolved Issues", "Resolved Issues"}

\* C15: the filter _parse_query builds for a set S of export items contains
\* #Unresolved iff Unresolved Issues is in S and #Resolved iff Resolved
\* Issues is in S, has as many tokens as S has state items (none, the empty
\* string, when it has neither), and does not depend on Comments or
\* Attachments; the query of the count request and of the listing request of
\* any project is 'project: <name> ' followed by this filter.
C15_QueryBuilderComplete ==
  (call.fn = "_parse_query" /\ call.state = "returned")
    => /\ Contains(call.out, Unresolved) <=> "Unresolved Issues" \in call.arg
       /\ Contains(call.out, Resolved) <=> "Resolved Issues" \in call.arg
       /\ Cardinality({i \in 1..Len(call.out) : call.out[i] = "#"})
            = Cardinality(call.arg \cap StateItems)
       /\ (call.arg \cap StateItems = {}) => call.out = <<>>
       /\ call.out = _parse_query(call.arg \cap StateItems)
       /\ \A p \in Projects :
            /\ count_request(p, call.arg).query
                 = ProjectPrefix \o ProjectName(p) \o <<" ">> \o call.out
            /\ \A skip \in 0..MaxIssues :
                 issues_request(p, call.arg, skip).query
                   = count_request(p, call.arg).query

\* C15 witness: the filter of Resolved Issues with Comments and Attachments.
C15_Witness ==
  /\ call.fn = "_parse_query"
  /\ call.state = "returned"
  /\ call.arg = {"Resolved Issues", "Comments", "Attachments"}
  /\ call.out = Resolved

HasGroup(fields, g) == \E i \in 1..Len(fields) : fields[i] = g

\* C16: the fields string built for a set S of export items holds every
\* baseline group, the comments group iff Comments is in S and the
\* attachments group iff Attachments is in S; so the fields of S are among
\* the fields of every superset of S.
C16_FieldsFollowTheItems ==
  (call.fn = "_parse_fields_from_export_items" /\ call.state = "returned")
    => /\ \A i \in 1..Len(BaselineFields) : HasGroup(call.out, BaselineFields[i])
       /\ HasGroup(call.out, CommentsFields) <=> "Comments" \in call.arg
       /\ HasGroup(call.out, AttachmentsFields) <=> "Attachments" \in call.arg
       /\ \A S \in SUBSET AllItems :
            call.arg \subseteq S
              => \A i \in 1..Len(call.out) :
                   HasGroup(_parse_fields_from_export_items(S), call.out[i])

\* C16 witness: the fields of a selection with Comments and without
\* Attachments.
C16_Witness ==
  /\ call.fn = "_parse_fields_from_export_items"
  /\ call.state = "returned"
  /\ call.arg = {"Unresolved Issues", "Comments"}
  /\ HasGroup(call.out, CommentsFields)
  /\ ~HasGroup(call.out, AttachmentsFields)

\* C17: the file of an attachment with id A and name B + E (base name B,
\* extension E) is named A, an underscore, the first min(len(B), 100)
\* characters of B, then E.
C17_AttachmentFileName ==
  (call.fn = "attachment_file_name" /\ call.state = "returned")
    => call.out = call.arg.id \o <<"_">>
                    \o SubSeq(call.arg.base, 1,
                              Min(Len(call.arg.base), filename_limit))
                    \o call.arg.ext

\* What the code builds instead: a dot of its own between the cut base name
\* and the extension, which begins with a dot whenever there is one.
FileNameAsBuilt ==
  (call.fn = "attachment_file_name" /\ call.state = "returned")
    => call.out = call.arg.id \o <<"_">>
                    \o SubSeq(call.arg.base, 1,
                              Min(Len(call.arg.base), filename_limit))
                    \o <<".">> \o call.arg.ext

\* C18: every batch file on disk holds a complete JSON array.
C18_BatchFilesAreValid ==
  \A f \in Folders :
    \A b \in DOMAIN disk[f].issues : disk[f].issues[b].valid

\* A sibling that waits for an answer or for the end of a delay.
Ready(q) == task[q].pc \in {"count_wait", "sleep", "page_wait"}

\* C20: while a pipeline waits for a count answer, a polling delay, an
\* issue page or an attachment download, every sibling that is ready can
\* take its next step.
C20_CallsAreSuspensionPoints ==
  \A p \in projects :
    task[p].pc \in {"count_wait", "sleep", "page_wait", "attach"}
      => \A q \in projects \ {p} : Ready(q) => ENABLED Step(q)

\* What asyncio does give: the three awaits (count request, delay, page
\* request) are suspension points.
AwaitsAreSuspensionPoints ==
  \A p \in projects :
    task[p].pc \in {"count_wait", "sleep", "page_wait"}
      => \A q \in projects \ {p} : Ready(q) => ENABLED Step(q)

\* The failures of a pipeline before its metadata write.
EarlyFailures ==
  {"count", "sentinels", "reset", "page", "batch", "attachment"}

\* C21: metadata.json of a project is written at most once per run, by the
\* step that received the empty page and by no other: before the write no
\* metadata was written in this run, after it the pipeline is over and the
\* file stays as it is until the next run; a pipeline that failed while
\* counting, resetting, fetching a page, writing a batch file or downloading
\* an attachment has written no metadata in its run.
C21_MetadataOncePerRun ==
  /\ [](\A p \in projects :
          /\ task[p].meta_writes <= 1
          /\ task[p].failure \in EarlyFailures
               => /\ task[p].meta_writes = 0
                  /\ FolderOf(p).metadata.export_date # run
                  /\ IsError(task[p]))
  /\ [][\A p \in projects :
          /\ (MetadataWritten(p) \/ task'[p].meta_writes # task[p].meta_writes)
               => \/ /\ task[p].pc = "page_wait"
                     /\ task[p].meta_writes = 0
                     /\ task'[p].last_page = "empty"
                     /\ task'[p].pc = "done"
                     /\ task'[p].failure \in {None, "metadata"}
                     /\ run' = run
                  \/ (run' # run /\ ~MetadataWritten(p))
          /\ (task[p].pc = "done" /\ run' = run)
               => FolderOf(p).metadata' = FolderOf(p).metadata
       ]_vars

\* C21 witness: a second run that failed at a batch write, with the metadata
\* the first run wrote still in the folder.
C21_Witness ==
  \E p \in projects :
    /\ run = 2
    /\ task[p].pc = "done"
    /\ task[p].failure = "batch"
    /\ task[p].meta_writes = 0
    /\ FolderOf(p).metadata.state = "valid"
    /\ FolderOf(p).metadata.export_date = 1
    /\ FolderOf(p).metadata.total_issues > 0

\* The issues of batch files 1..b, in the order of the files and of their
\* arrays.
RECURSIVE Listing(_, _)
Listing(files, b) ==
  IF b = 0 THEN <<>>
  ELSE Listing(files, b - 1)
         \o (IF b \in DOMAIN files THEN files[b].data ELSE <<>>)

LastBatch(files) ==
  IF DOMAIN files = {} THEN 0
  ELSE CHOOSE b \in DOMAIN files : \A c \in DOMAIN files : c <= b

SavedListing(p) == Listing(FolderOf(p).issues, LastBatch(FolderOf(p).issues))

\* C22: when a pipeline requests a page, no issue of the page before is left
\* unprocessed, the request's skip is the number of issues processed so far,
\* and the batch files hold, in the order of their numbers and arrays, the
\* issues 1..skip of the server's listing, each once; while a page is being
\* processed, the issue at hand is the next one of the listing.
C22_PagesInSequence ==
  /\ [](\A p \in projects :
          /\ task[p].pc = "page_wait" => task[p].page = <<>>
          /\ task[p].pc \in {"issue", "attach"}
               => /\ task[p].page # <<>>
                  /\ Head(task[p].page).id.n = task[p].parsed_issues + 1)
  /\ [][\A p \in projects :
          PageCalled(p)
            => /\ task'[p].page = <<>>
               /\ task'[p].last_skip = task'[p].parsed_issues
               /\ Len(SavedListing(p)') = task'[p].last_skip
               /\ \A i \in 1..task'[p].last_skip :
                    SavedListing(p)'[i] = [run |-> run, project |-> p, n |-> i]
       ]_vars

\* C22 witness: one issue more than a full page was processed, so one page
\* at least was shorter than the limit, and the next request starts right
\* behind the last issue; the issues are spread over two batch files.
C22_Witness ==
  \E p \in projects :
    /\ task[p].pc = "page_wait"
    /\ task[p].parsed_issues = MaxPage + 1
    /\ task[p].last_skip = MaxPage + 1
    /\ Len(SavedListing(p)) = MaxPage + 1
    /\ batch_size = SmallBatch

Sentinel == [kind |-> "count", v |-> -1]

\* An attachment is requested from the server.
AttachmentCalled(p) == task[p].pc = "attach" /\ task'[p] # task[p]

\* C23: the step in which a pipeline's count request (answered by an error),
\* reset, page request, batch write, attachment download or metadata write
\* fails ends the pipeline in the Error state; from then on, within the run,
\* the pipeline sends no request and its task and its folder do not change.
\* No request is a repetition except the count request after the sentinel:
\* a count request that is not the first follows a sentinel answer and a
\* delay, and a page request that is not the first follows a page with
\* issues and asks for a higher offset.
C23_FailuresAreOneShot ==
  /\ [](\A p \in projects :
          task[p].failure # None => task[p].pc = "done" /\ IsError(task[p]))
  /\ [][\A p \in projects :
          /\ (task[p].failure # None /\ run' = run)
               => /\ task'[p] = task[p]
                  /\ FolderOf(p)' = FolderOf(p)
                  /\ ~CountCalled(p) /\ ~PageCalled(p) /\ ~AttachmentCalled(p)
          /\ (task[p].failure = None /\ task'[p].failure # None)
               => /\ task'[p].pc = "done"
                  /\ IsError(task'[p])
                  /\ running' # p
          /\ (CountCalled(p) /\ task[p].pc # "pending")
               => /\ task[p].pc = "sleep"
                  /\ task[p].answer = Sentinel
                  /\ task[p].failure = None
          /\ (PageCalled(p) /\ task[p].reset_done)
               => /\ task[p].last_page = "issues"
                  /\ task'[p].last_skip > task[p].last_skip
                  /\ task[p].failure = None
       ]_vars

\* C23 witness: a run is over in which a pipeline failed at a page request
\* after it had processed a page, with its issues still in the batch files.
C23_Witness ==
  \E p \in projects :
    /\ signalled = 1
    /\ task[p].failure = "page"
    /\ IsError(task[p])
    /\ task[p].parsed_issues > 0
    /\ Len(SavedListing(p)) = task[p].parsed_issues

\* C24: when 'Export Complete!' is printed, every selected project is either
\* Complete or in the Error state, never both and never anything else; a
\* pipeline that ended without a failure is Complete, and is hidden when its
\* count was zero.
C24_EveryProjectIsTerminal ==
  signalled = 1
    => \A p \in projects :
         /\ IsComplete(task[p]) \/ IsError(task[p])
         /\ ~(IsComplete(task[p]) /\ IsError(task[p]))
         /\ task[p].failure = None => IsComplete(task[p])
         /\ (IsComplete(task[p]) /\ task[p].issues_total = 0)
              => ~task[p].visible

\* What line 106 does give: a pipeline that ended without a failure is
\* Complete when it processed as many issues as the count announced, and is
\* left at 'Exporting issues...' when the listing returned fewer.
TerminalWhenTheListingReachesTheTotal ==
  signalled = 1
    => \A p \in projects :
         /\ IsError(task[p]) <=> task[p].failure # None
         /\ task[p].failure = None
              => /\ IsComplete(task[p])
                      <=> task[p].parsed_issues >= task[p].issues_total
                 /\ ~IsComplete(task[p])
                      => task[p].description = "Exporting issues..."
         /\ (task[p].failure = None /\ task[p].issues_total = 0)
              => ~task[p].visible

\* The reset of lines 164-170 is carried out by p.
ResetDone(p) == ~task[p].reset_done /\ task'[p].reset_done

\* C25: no step removes an attachment file: in every step, every folder
\* holds afterwards all the attachment files it held before; and the step
\* that resets issues/ leaves the attachment files and metadata.json of the
\* folder as they were and removes the batch files only.
C25_AttachmentsAreAdditive ==
  [][/\ \A f \in Folders : disk[f].attachments \subseteq disk'[f].attachments
     /\ \A p \in projects :
          ResetDone(p)
            => /\ FolderOf(p).attachments' = FolderOf(p).attachments
               /\ FolderOf(p).metadata' = FolderOf(p).metadata
               /\ FolderOf(p).exists' = FolderOf(p).exists
               /\ FolderOf(p).issues' = <<>>
               /\ ~FolderOf(p).issues_dir'
    ]_vars

\* C25 witness: the second run has just reset issues/, and the attachments
\* and the metadata of the first run are in the folder.
C25_Witness ==
  \E p \in projects :
    /\ run = 2
    /\ task[p].reset_done
    /\ task[p].pc = "page_wait"
    /\ task[p].last_page = None
    /\ FolderOf(p).issues = <<>>
    /\ \E a \in FolderOf(p).attachments : a.issue.run = 1
    /\ FolderOf(p).metadata.export_date = 1
    /\ FolderOf(p).metadata.total_attachments > 0

\* metadata.json of p's folder is a complete document whose total_issues is
\* the number of issues in the batch files of the folder.
MetadataAgrees(p) ==
  /\ FolderOf(p).metadata.state = "valid"
  /\ FolderOf(p).metadata.total_issues = IssuesOnDisk(FolderOf(p))

\* C26: at the end of every run, failed or not, first or repeated, a
\* metadata.json that is in a project's folder gives as total_issues the
\* number of issues the batch files of the folder hold.
C26_MetadataAgreesWithBatchFiles ==
  signalled = 1
    => \A p \in projects :
         FolderOf(p).metadata.state = "valid" => MetadataAgrees(p)

\* What the code does give: at the end of a run in which the pipeline
\* exported and did not fail, metadata.json agrees with the batch files.
MetadataAgreesAfterAnExportWithoutFailure ==
  signalled = 1
    => \A p \in projects :
         (task[p].failure = None /\ task[p].reset_done) => MetadataAgrees(p)

\* Polling returned 0, for a count of zero or a body without count, and the
\* pipeline is over.
Skipped(tk) ==
  /\ tk.pc = "done"
  /\ tk.polled
  /\ tk.issues_total = 0
  /\ tk.failure = None

Counting(tk) == tk.pc \in {"pending", "count_wait", "sleep"}

ZeroAnswers == {[kind |-> "null", v |-> 0], [kind |-> "count", v |-> 0]}

\* C27: a count answer of zero or without count ends the pipeline in the
\* same step: no page is requested, issues/ is not reset, no batch file and
\* no metadata is written, the task is hidden and Complete.  The project
\* folder is as it was when the run began: no step of the run changes it,
\* neither while the pipeline is counting nor once it was skipped.
C27_ZeroCountSkipsTheExporter ==
  /\ [](\A p \in projects :
          Skipped(task[p])
            => /\ task[p].answer \in ZeroAnswers
               /\ ~task[p].visible
               /\ IsComplete(task[p])
               /\ ~task[p].reset_done
               /\ task[p].last_page = None
               /\ task[p].parsed_issues = 0
               /\ task[p].meta_writes = 0)
  /\ [][\A p \in projects :
          /\ (CountAnswered(p) /\ task'[p].answer \in ZeroAnswers)
               => Skipped(task'[p])
          /\ (run' = run /\ Skipped(task'[p]))
               => FolderOf(p)' = FolderOf(p)
          /\ (run' = run /\ Counting(task[p]) /\ Counting(task'[p]))
               => FolderOf(p)' = FolderOf(p)
       ]_vars

\* C27 witness: the second run of a project was skipped on a body without
\* count, and the batch files and metadata of the first run are in the
\* folder.
C27_Witness ==
  \E p \in projects :
    /\ run = 2
    /\ signalled = 1
    /\ Skipped(task[p])
    /\ task[p].answer.kind = "null"
    /\ IssuesOnDisk(FolderOf(p)) > 0
    /\ FolderOf(p).metadata.export_date = 1

====
